---- MODULE Spec2Model ----
(***************************************************************************)
(* Order placement of the checkout service (src/checkoutservice/main.go):  *)
(* the PlaceOrder handler, step by step, against its downstream services.  *)
(* Every downstream call is one step: the call is made, its outcome is     *)
(* chosen by the environment, and the handler moves on as the code does.   *)
(***************************************************************************)
EXTENDS Integers, Sequences, FiniteSets, TLC

\* ------------------------------------------------------------------ bounds
MaxCartLen == 2
MaxQuantity == 2
MaxUnits == 2
MaxFactor == 3

\* --------------------------------------------------------------- constants
usdCurrency == "USD"
eurCurrency == "EUR"
CurrencyCodes == {usdCurrency, eurCurrency}

\* the store id of the internal catalog, "ONBQ", as a sequence of characters
InternalStore == <<"O", "N", "B", "Q">>

\* product ids are strings, modelled as sequences of characters
InternalId  == <<"O", "N", "B", "Q", ":", "1">>
ExternalId  == <<"X", ":", "7">>
MalformedId == <<"O", "N", "B", "Q">>
ProductIds == {InternalId, ExternalId, MalformedId}

Invocations == {1, 2}

\* gRPC status codes of the returned error; OK stands for a nil error
OK == "OK"
Internal == "Internal"
Unavailable == "Unavailable"

\* ------------------------------------------------------------------- money
NanosMod == 1000000000

Money(c, u, n) == [currency_code |-> c, units |-> u, nanos |-> n]
ZeroMoney(c) == Money(c, 0, 0)

Normalize_noBorrow(c, u, n) ==
  IF n >= NanosMod THEN Money(c, u + 1, n - NanosMod)
  ELSE IF n <= -NanosMod THEN Money(c, u - 1, n + NanosMod)
  ELSE Money(c, u, n)

\* carry |nanos| >= 10^9 into units, then realign the signs
Normalize(c, u, n) ==
  LET u1 == IF n >= NanosMod THEN u + 1 ELSE IF n <= -NanosMod THEN u - 1 ELSE u
      n1 == IF n >= NanosMod THEN n - NanosMod
            ELSE IF n <= -NanosMod THEN n + NanosMod ELSE n
  IN  IF u1 > 0 /\ n1 < 0 THEN Money(c, u1 - 1, n1 + NanosMod)
      ELSE IF u1 < 0 /\ n1 > 0 THEN Money(c, u1 + 1, n1 - NanosMod)
      ELSE Money(c, u1, n1)

\* money.Sum: fails on mismatching currency codes
Sum(a, b) ==
  IF a.currency_code # b.currency_code
  THEN [ok |-> FALSE, money |-> ZeroMoney("")]
  ELSE [ok |-> TRUE,
        money |-> Normalize(a.currency_code, a.units + b.units, a.nanos + b.nanos)]

RECURSIVE MultiplyLoop(_, _, _)
MultiplyLoop(acc, cur, n) ==
  IF n = 0 THEN acc
  ELSE MultiplyLoop(IF n % 2 = 1 THEN Sum(acc, cur).money ELSE acc,
                    Sum(cur, cur).money, n \div 2)

MultiplySlow_fromOne(a, n) == MultiplyLoop(a, a, n)

\* money.MultiplySlow: a times n by repeated doubling
MultiplySlow(a, n) == MultiplyLoop(ZeroMoney(a.currency_code), a, n)

\* ------------------------------------------------------- product origin
\* strings.Split(id, ":"): the pieces of id between the separators
RECURSIVE SplitFrom(_, _, _)
SplitFrom(id, k, cur) ==
  IF k > Len(id) THEN <<cur>>
  ELSE IF id[k] = ":" THEN <<cur>> \o SplitFrom(id, k + 1, <<>>)
  ELSE SplitFrom(id, k + 1, Append(cur, id[k]))

Split(id) == SplitFrom(id, 1, <<>>)

\* ------------------------------------------------------------ environment
CartItem(p, q) == [product_id |-> p, quantity |-> q]
CartItems == {CartItem(p, q) : p \in ProductIds, q \in 1..MaxQuantity}

RECURSIVE SeqsUpTo(_, _)
SeqsUpTo(S, n) ==
  IF n = 0 THEN {<<>>}
  ELSE LET shorter == SeqsUpTo(S, n - 1)
       IN  shorter \cup {Append(s, x) : s \in {t \in shorter : Len(t) = n - 1}, x \in S}

Carts == SeqsUpTo(CartItems, MaxCartLen)

\* the catalog's advertised USD price of a product
CatalogPriceUsd(id) ==
  IF id = InternalId THEN Money(usdCurrency, 10, 0)
  ELSE Money(usdCurrency, 2, 500000000)

\* the USD quotes the shipping service may answer with
ShippingQuotes == {Money(usdCurrency, 5, 0), Money(usdCurrency, 1, 750000000)}

\* what the currency service may answer to Convert(from, to): the amount at
\* its rate, in the requested currency or (a misbehaving service) another one
AtRate(from, to) ==
  IF to = usdCurrency THEN from ELSE Sum(from, from).money
ConvertResponses(from, to) ==
  {[AtRate(from, to) EXCEPT !.currency_code = c] : c \in CurrencyCodes}

\* the outcomes of the HTTP GET of the existence check
HttpOutcomes == {"sendError", "readError", "badJSON", "Success", "Failure"}

\* getExternalProduct: (exists, error) from the outcome of the HTTP GET
getExternalProduct(h) ==
  IF h \in {"sendError", "readError", "badJSON"} THEN [b |-> FALSE, err |-> TRUE]
  ELSE IF h = "Success" THEN [b |-> TRUE, err |-> FALSE]
  ELSE [b |-> FALSE, err |-> FALSE]

\* ------------------------------------------------------------------- state
VARIABLES
  pc,                    \* position of each PlaceOrder invocation
  req,                   \* the PlaceOrderRequest of each invocation
  userCart,              \* cart service: the stored cart of each user
  cartItems,             \* getUserCart's result
  i,                     \* prepOrderItems: index of the line being priced
  out,                   \* prepOrderItems: the order items built so far
  isExternal,            \* prepOrderItems: some line so far was external
  product,               \* prepOrderItems: USD price of the looked-up product
  shippingUSD,           \* quoteShipping's result
  prep,                  \* orderPrep returned to PlaceOrder
  total,                 \* the amount to charge
  shippingTrackingID,    \* shipOrder's result
  orderResult,           \* the OrderResult, once built
  resp,                  \* the returned response: <<>> is nil
  err,                   \* the returned status: OK is a nil error
  posted,                \* the items of the payload POSTed to the marketplace
  calls,                 \* the downstream calls made so far, in order
  received,              \* what the downstream calls of each invocation returned
  arith                  \* money arithmetic on its own: operands and result

vars == <<pc, req, userCart, cartItems, i, out, isExternal, product, shippingUSD,
          prep, total, shippingTrackingID, orderResult, resp, err, posted, calls,
          received, arith>>

NilItem == [item |-> CartItem(<<>>, 0), cost |-> ZeroMoney("")]
NilPrep == [orderItems |-> <<>>, cartItems |-> <<>>, shippingCostLocalized |-> ZeroMoney("")]
NilResult == [order_id |-> 0, shipping_tracking_id |-> 0,
              shipping_cost |-> ZeroMoney(""), items |-> <<>>]

\* the context each call is made with: the ctx of the inbound request,
\* context.TODO() in convertCurrency, none for the two HTTP requests
CallContext(op) ==
  IF op \in {"Convert", "ConvertShipping"} THEN "TODO"
  ELSE IF op \in {"getExternalProduct", "PostOrder"} THEN "none"
  ELSE "ctx"

Call(op, line, ok, b) ==
  [op |-> op, line |-> line, ok |-> ok, b |-> b, ctx |-> CallContext(op)]

UserIds == {1, 2}
Requests == [user_id : UserIds, user_currency : CurrencyCodes]

\* nothing returned yet
NilReceived == [cart |-> <<>>, prices |-> <<>>, shipping |-> ZeroMoney(""), tracking |-> 0]

\* no arithmetic under way
NoArith == [a |-> ZeroMoney(""), b |-> ZeroMoney(""), n |-> 0, op |-> "none",
            ok |-> TRUE, money |-> ZeroMoney("")]

InitLocals ==
  /\ cartItems = [r \in Invocations |-> <<>>]
  /\ i = [r \in Invocations |-> 0]
  /\ out = [r \in Invocations |-> <<>>]
  /\ isExternal = [r \in Invocations |-> FALSE]
  /\ product = [r \in Invocations |-> ZeroMoney("")]
  /\ shippingUSD = [r \in Invocations |-> ZeroMoney("")]
  /\ prep = [r \in Invocations |-> NilPrep]
  /\ total = [r \in Invocations |-> ZeroMoney("")]
  /\ shippingTrackingID = [r \in Invocations |-> 0]
  /\ orderResult = [r \in Invocations |-> NilResult]
  /\ resp = [r \in Invocations |-> <<>>]
  /\ err = [r \in Invocations |-> OK]
  /\ posted = [r \in Invocations |-> <<>>]
  /\ calls = [r \in Invocations |-> <<>>]
  /\ received = [r \in Invocations |-> NilReceived]

\* one inbound request: invocation 1 runs, for any request and any stored cart
Init ==
  /\ pc = [r \in Invocations |-> IF r = 1 THEN "Start" ELSE "idle"]
  /\ \E q \in Requests : q.user_id = 1 /\ req = [r \in Invocations |-> q]
  /\ \E c \in Carts : userCart = [u \in UserIds |-> IF u = 1 THEN c ELSE <<>>]
  /\ InitLocals
  /\ arith = NoArith

\* ------------------------------------------------------------- PlaceOrder
\* return nil, status.Errorf(code, ...)
ReturnError(r, code) ==
  /\ pc' = [pc EXCEPT ![r] = "returned"]
  /\ resp' = [resp EXCEPT ![r] = <<>>]
  /\ err' = [err EXCEPT ![r] = code]

Log(r, c) == calls' = [calls EXCEPT ![r] = Append(@, c)]

\* the status PlaceOrder wraps each failure in
prepareFailureCode == Internal
chargeFailureCode_unavailable == Unavailable
chargeFailureCode == Internal
shipFailureCode == Unavailable

\* orderID, err := uuid.NewUUID()
NewUUID(r) ==
  /\ pc[r] = "Start"
  /\ \E ok \in BOOLEAN :
       IF ok
       THEN /\ pc' = [pc EXCEPT ![r] = "getUserCart"]
            /\ UNCHANGED <<resp, err>>
       ELSE ReturnError(r, Internal)
  /\ UNCHANGED <<received, arith, req, userCart, cartItems, i, out, isExternal, product, shippingUSD,
                 prep, total, shippingTrackingID, orderResult, posted, calls>>

\* where prepareOrderItemsAndShippingQuoteFromCart goes after each of its calls
getUserCartNext_retry(ok) == IF ok THEN "prepOrderItems" ELSE "getUserCart"
getUserCartNext(ok) == IF ok THEN "prepOrderItems" ELSE "prepareFailed"
quoteShippingNext_ignored(ok) == "convertShipping"
quoteShippingNext(ok) == IF ok THEN "convertShipping" ELSE "prepareFailed"
convertShippingNext(ok) == IF ok THEN "prepared" ELSE "prepareFailed"

\* cartItems, err := cs.getUserCart(ctx, userID)
getUserCart(r) ==
  /\ pc[r] = "getUserCart"
  /\ \E ok \in BOOLEAN :
       /\ Log(r, Call("GetCart", 0, ok, ok))
       /\ pc' = [pc EXCEPT ![r] = getUserCartNext(ok)]
       /\ cartItems' = [cartItems EXCEPT ![r] = IF ok THEN userCart[req[r].user_id] ELSE <<>>]
       /\ received' = [received EXCEPT ![r].cart = IF ok THEN userCart[req[r].user_id] ELSE @]
  /\ UNCHANGED <<arith, req, userCart, i, out, isExternal, product, shippingUSD, prep, total,
                 shippingTrackingID, orderResult, resp, err, posted>>

\* prepOrderItems, entry: out := make(..., len(items)); isExternal := false
prepOrderItems(r) ==
  /\ pc[r] = "prepOrderItems"
  /\ out' = [out EXCEPT ![r] = [k \in 1..Len(cartItems[r]) |-> NilItem]]
  /\ isExternal' = [isExternal EXCEPT ![r] = FALSE]
  /\ i' = [i EXCEPT ![r] = 1]
  /\ pc' = [pc EXCEPT ![r] = "line"]
  /\ UNCHANGED <<received, arith, req, userCart, cartItems, product, shippingUSD, prep, total,
                 shippingTrackingID, orderResult, resp, err, posted, calls>>

\* store != "ONBQ"
IsExternalStore_always(store) == TRUE
IsExternalStore(store) == store # InternalStore

\* prepOrderItems, loop head: the next line's product id is split on ":" and
\* s[0], s[1] are read (index out of range, a panic, without a separator);
\* after the last line out is returned
prepOrderItemsLine_rejectsEmpty(r) ==
  /\ pc[r] = "line"
  /\ IF i[r] > Len(cartItems[r])
     THEN pc' = [pc EXCEPT ![r] = IF Len(cartItems[r]) = 0 THEN "prepareFailed"
                                  ELSE "quoteShipping"]
     ELSE LET s == Split(cartItems[r][i[r]].product_id)
          IN  IF Len(s) < 2
              THEN pc' = [pc EXCEPT ![r] = "panicked"]
              ELSE IF IsExternalStore(s[1])
              THEN pc' = [pc EXCEPT ![r] = "getExternalProduct"]
              ELSE pc' = [pc EXCEPT ![r] = "GetProduct"]
  /\ UNCHANGED <<received, arith, req, userCart, cartItems, i, out, isExternal, product, shippingUSD,
                 prep, total, shippingTrackingID, orderResult, resp, err, posted, calls>>

prepOrderItemsLine(r) ==
  /\ pc[r] = "line"
  /\ IF i[r] > Len(cartItems[r])
     THEN pc' = [pc EXCEPT ![r] = "quoteShipping"]
     ELSE LET s == Split(cartItems[r][i[r]].product_id)
          IN  IF Len(s) < 2
              THEN pc' = [pc EXCEPT ![r] = "panicked"]
              ELSE IF IsExternalStore(s[1])
              THEN pc' = [pc EXCEPT ![r] = "getExternalProduct"]
              ELSE pc' = [pc EXCEPT ![r] = "GetProduct"]
  /\ UNCHANGED <<received, arith, req, userCart, cartItems, i, out, isExternal, product, shippingUSD,
                 prep, total, shippingTrackingID, orderResult, resp, err, posted, calls>>

\* if err != nil && !b { return nil, isExternal, ... }
ExistenceAborts_never(b, e) == FALSE
ExistenceAborts_whenMissing(b, e) == ~b
ExistenceAborts(b, e) == e /\ ~b

\* b, err := getExternalProduct(item.GetProductId()); isExternal = true
prepOrderItemsExists(r) ==
  /\ pc[r] = "getExternalProduct"
  /\ \E h \in HttpOutcomes :
       LET res == getExternalProduct(h)
       IN  /\ Log(r, Call("getExternalProduct", i[r], ~res.err, res.b))
           /\ IF ExistenceAborts(res.b, res.err)
              THEN /\ pc' = [pc EXCEPT ![r] = "prepareFailed"]
                   /\ out' = [out EXCEPT ![r] = <<>>]
              ELSE /\ pc' = [pc EXCEPT ![r] = "GetProduct"]
                   /\ UNCHANGED out
  /\ isExternal' = [isExternal EXCEPT ![r] = TRUE]
  /\ UNCHANGED <<received, arith, req, userCart, cartItems, i, product, shippingUSD, prep, total,
                 shippingTrackingID, orderResult, resp, err, posted>>

prepOrderItemsGetProduct_continues(r) ==
  /\ pc[r] = "GetProduct"
  /\ \E ok \in BOOLEAN :
       /\ Log(r, Call("GetProduct", i[r], ok, ok))
       /\ product' = [product EXCEPT ![r] =
                        CatalogPriceUsd(cartItems[r][i[r]].product_id)]
       /\ pc' = [pc EXCEPT ![r] = "convertPrice"]
       /\ UNCHANGED out
  /\ UNCHANGED <<received, arith, req, userCart, cartItems, i, isExternal, shippingUSD, prep, total,
                 shippingTrackingID, orderResult, resp, err, posted>>

\* product, err := cl.GetProduct(ctx, ...)
prepOrderItemsGetProduct(r) ==
  /\ pc[r] = "GetProduct"
  /\ \E ok \in BOOLEAN :
       /\ Log(r, Call("GetProduct", i[r], ok, ok))
       /\ IF ok
          THEN /\ product' = [product EXCEPT ![r] =
                                CatalogPriceUsd(cartItems[r][i[r]].product_id)]
               /\ pc' = [pc EXCEPT ![r] = "convertPrice"]
               /\ UNCHANGED out
          ELSE /\ pc' = [pc EXCEPT ![r] = "prepareFailed"]
               /\ out' = [out EXCEPT ![r] = <<>>]
               /\ UNCHANGED product
  /\ UNCHANGED <<received, arith, req, userCart, cartItems, i, isExternal, shippingUSD, prep, total,
                 shippingTrackingID, orderResult, resp, err, posted>>

\* price, err := cs.convertCurrency(ctx, product.GetPriceUsd(), userCurrency);
\* out[i] = &pb.OrderItem{Item: item, Cost: price}
prepOrderItemsConvert(r) ==
  /\ pc[r] = "convertPrice"
  /\ \/ /\ Log(r, Call("Convert", i[r], FALSE, FALSE))
        /\ pc' = [pc EXCEPT ![r] = "prepareFailed"]
        /\ out' = [out EXCEPT ![r] = <<>>]
        /\ UNCHANGED <<i, received>>
     \/ \E price \in ConvertResponses(product[r], req[r].user_currency) :
        /\ Log(r, Call("Convert", i[r], TRUE, TRUE))
        /\ out' = [out EXCEPT ![r][i[r]] = [item |-> cartItems[r][i[r]], cost |-> price]]
        /\ i' = [i EXCEPT ![r] = @ + 1]
        /\ pc' = [pc EXCEPT ![r] = "line"]
        /\ received' = [received EXCEPT ![r].prices = Append(@, price)]
  /\ UNCHANGED <<arith, req, userCart, cartItems, isExternal, product, shippingUSD, prep, total,
                 shippingTrackingID, orderResult, resp, err, posted>>

\* shippingUSD, err := cs.quoteShipping(ctx, address, cartItems)
quoteShipping(r) ==
  /\ pc[r] = "quoteShipping"
  /\ \/ /\ Log(r, Call("GetQuote", 0, FALSE, FALSE))
        /\ pc' = [pc EXCEPT ![r] = quoteShippingNext(FALSE)]
        /\ UNCHANGED shippingUSD
     \/ \E q \in ShippingQuotes :
        /\ Log(r, Call("GetQuote", 0, TRUE, TRUE))
        /\ pc' = [pc EXCEPT ![r] = quoteShippingNext(TRUE)]
        /\ shippingUSD' = [shippingUSD EXCEPT ![r] = q]
  /\ UNCHANGED <<received, arith, req, userCart, cartItems, i, out, isExternal, product, prep, total,
                 shippingTrackingID, orderResult, resp, err, posted>>

\* shippingPrice, err := cs.convertCurrency(ctx, shippingUSD, userCurrency);
\* out.shippingCostLocalized, out.cartItems, out.orderItems are set
convertShipping_sharedPrep(r) ==
  /\ pc[r] = "convertShipping"
  /\ \/ /\ Log(r, Call("ConvertShipping", 0, FALSE, FALSE))
        /\ pc' = [pc EXCEPT ![r] = convertShippingNext(FALSE)]
        /\ UNCHANGED <<prep, received>>
     \/ \E shippingPrice \in ConvertResponses(shippingUSD[r], req[r].user_currency) :
        /\ Log(r, Call("ConvertShipping", 0, TRUE, TRUE))
        /\ pc' = [pc EXCEPT ![r] = convertShippingNext(TRUE)]
        /\ prep' = [s \in Invocations |-> [orderItems |-> out[r],
                                            cartItems |-> cartItems[r],
                                            shippingCostLocalized |-> shippingPrice]]
        /\ received' = [received EXCEPT ![r].shipping = shippingPrice]
  /\ UNCHANGED <<arith, req, userCart, cartItems, i, out, isExternal, product, shippingUSD,
                 total, shippingTrackingID, orderResult, resp, err, posted>>

convertShipping(r) ==
  /\ pc[r] = "convertShipping"
  /\ \/ /\ Log(r, Call("ConvertShipping", 0, FALSE, FALSE))
        /\ pc' = [pc EXCEPT ![r] = convertShippingNext(FALSE)]
        /\ UNCHANGED <<prep, received>>
     \/ \E shippingPrice \in ConvertResponses(shippingUSD[r], req[r].user_currency) :
        /\ Log(r, Call("ConvertShipping", 0, TRUE, TRUE))
        /\ pc' = [pc EXCEPT ![r] = convertShippingNext(TRUE)]
        /\ prep' = [prep EXCEPT ![r] = [orderItems |-> out[r],
                                        cartItems |-> cartItems[r],
                                        shippingCostLocalized |-> shippingPrice]]
        /\ received' = [received EXCEPT ![r].shipping = shippingPrice]
  /\ UNCHANGED <<arith, req, userCart, cartItems, i, out, isExternal, product, shippingUSD,
                 total, shippingTrackingID, orderResult, resp, err, posted>>

\* if err != nil { return nil, status.Errorf(codes.Internal, err.Error()) }
prepareFailed(r) ==
  /\ pc[r] = "prepareFailed"
  /\ ReturnError(r, prepareFailureCode)
  /\ UNCHANGED <<received, arith, req, userCart, cartItems, i, out, isExternal, product, shippingUSD,
                 prep, total, shippingTrackingID, orderResult, posted, calls>>

\* total := {UserCurrency, 0, 0}; total = Must(Sum(total, shipping)); for each
\* order item, total = Must(Sum(total, MultiplySlow(cost, quantity)))
RECURSIVE SumItems(_, _, _)
SumItems(acc, items, k) ==
  IF ~acc.ok \/ k > Len(items) THEN acc
  ELSE SumItems(Sum(acc.money, MultiplySlow(items[k].cost, items[k].item.quantity)),
                items, k + 1)

Total_noShipping(userCurrency, shippingCostLocalized, orderItems) ==
  SumItems([ok |-> TRUE, money |-> ZeroMoney(userCurrency)], orderItems, 1)

Total(userCurrency, shippingCostLocalized, orderItems) ==
  SumItems(Sum(ZeroMoney(userCurrency), shippingCostLocalized), orderItems, 1)

\* money.Must panics when Sum failed
computeTotal(r) ==
  /\ pc[r] = "prepared"
  /\ LET t == Total(req[r].user_currency, prep[r].shippingCostLocalized,
                    prep[r].orderItems)
     IN  IF t.ok
         THEN /\ total' = [total EXCEPT ![r] = t.money]
              /\ pc' = [pc EXCEPT ![r] = "chargeCard"]
         ELSE /\ pc' = [pc EXCEPT ![r] = "panicked"]
              /\ UNCHANGED total
  /\ UNCHANGED <<received, arith, req, userCart, cartItems, i, out, isExternal, product, shippingUSD,
                 prep, shippingTrackingID, orderResult, resp, err, posted, calls>>

\* which outcomes of the later calls make PlaceOrder return an error
chargeCardAborts_never(ok) == FALSE
chargeCardAborts(ok) == ~ok
shipOrderAborts_never(ok) == FALSE
shipOrderAborts(ok) == ~ok
emptyUserCartAborts_onError(ok) == ~ok
emptyUserCartAborts(ok) == FALSE
sendOrderConfirmationAborts_onError(ok) == ~ok
sendOrderConfirmationAborts(ok) == FALSE

\* txID, err := cs.chargeCard(ctx, &total, req.CreditCard)
chargeCard(r) ==
  /\ pc[r] = "chargeCard"
  /\ \E ok \in BOOLEAN :
       /\ Log(r, Call("Charge", 0, ok, ok))
       /\ IF chargeCardAborts(ok)
          THEN ReturnError(r, chargeFailureCode)
          ELSE /\ pc' = [pc EXCEPT ![r] = "shipOrder"]
               /\ UNCHANGED <<resp, err>>
  /\ UNCHANGED <<received, arith, req, userCart, cartItems, i, out, isExternal, product, shippingUSD,
                 prep, total, shippingTrackingID, orderResult, posted>>

\* shippingTrackingID, err := cs.shipOrder(ctx, req.Address, prep.cartItems)
shipOrder(r) ==
  /\ pc[r] = "shipOrder"
  /\ \E ok \in BOOLEAN :
       /\ Log(r, Call("ShipOrder", 0, ok, ok))
       /\ shippingTrackingID' = [shippingTrackingID EXCEPT ![r] = IF ok THEN r ELSE 0]
       /\ received' = [received EXCEPT ![r].tracking = IF ok THEN r ELSE @]
       /\ IF shipOrderAborts(ok)
          THEN ReturnError(r, shipFailureCode)
          ELSE /\ pc' = [pc EXCEPT ![r] = "emptyUserCart"]
               /\ UNCHANGED <<resp, err>>
  /\ UNCHANGED <<arith, req, userCart, cartItems, i, out, isExternal, product, shippingUSD,
                 prep, total, orderResult, posted>>

\* _ = cs.emptyUserCart(ctx, req.UserId); orderResult := &pb.OrderResult{...}
emptyUserCart(r) ==
  /\ pc[r] = "emptyUserCart"
  /\ \E ok \in BOOLEAN :
       /\ Log(r, Call("EmptyCart", 0, ok, ok))
       /\ userCart' = [userCart EXCEPT ![req[r].user_id] = IF ok THEN <<>> ELSE @]
       /\ IF emptyUserCartAborts(ok)
          THEN /\ ReturnError(r, Internal)
               /\ UNCHANGED orderResult
          ELSE /\ pc' = [pc EXCEPT ![r] = "sendOrderConfirmation"]
               /\ orderResult' = [orderResult EXCEPT ![r] =
                    [order_id |-> r,
                     shipping_tracking_id |-> shippingTrackingID[r],
                     shipping_cost |-> prep[r].shippingCostLocalized,
                     items |-> prep[r].orderItems]]
               /\ UNCHANGED <<resp, err>>
  /\ UNCHANGED <<received, arith, req, cartItems, i, out, isExternal, product, shippingUSD,
                 prep, total, shippingTrackingID, posted>>

\* if err := cs.sendOrderConfirmation(ctx, req.Email, orderResult); err != nil
\* { log.Warnf(...) } else { log.Infof(...) }
sendOrderConfirmation(r) ==
  /\ pc[r] = "sendOrderConfirmation"
  /\ \E ok \in BOOLEAN :
       /\ Log(r, Call("SendOrderConfirmation", 0, ok, ok))
       /\ IF sendOrderConfirmationAborts(ok)
          THEN ReturnError(r, Internal)
          ELSE /\ pc' = [pc EXCEPT ![r] = "relay"]
               /\ UNCHANGED <<resp, err>>
  /\ UNCHANGED <<received, arith, req, userCart, cartItems, i, out, isExternal, product, shippingUSD,
                 prep, total, shippingTrackingID, orderResult, posted>>

\* ExternalMoney{CurrencyCode: ..., Units: ..., Nanos: ...} of a pb.Money
ExternalMoney(m) ==
  [CurrencyCode |-> m.currency_code, Units |-> m.units, Nanos |-> m.nanos]

\* postExternalOrder: the items whose store is not "ONBQ", as ExternalOrderItems
RECURSIVE externalItems_unfiltered(_, _)
externalItems_unfiltered(items, k) ==
  IF k > Len(items) THEN <<>>
  ELSE <<[ID |-> items[k].item.product_id, Cost |-> ExternalMoney(items[k].cost)]>>
       \o externalItems_unfiltered(items, k + 1)

RECURSIVE externalItems(_, _)
externalItems(items, k) ==
  IF k > Len(items) THEN <<>>
  ELSE LET s == Split(items[k].item.product_id)
       IN  (IF s[1] # InternalStore
            THEN <<[ID |-> items[k].item.product_id,
                    Cost |-> ExternalMoney(items[k].cost)]>>
            ELSE <<>>) \o externalItems(items, k + 1)

\* if isExternal { postExternalOrder(*orderResult) }
relayWanted_always(r) == TRUE
relayWanted(r) == isExternal[r]

\* postExternalOrder(*orderResult): the payload is POSTed, the outcome ignored
postExternalOrder(r) ==
  /\ pc[r] = "relay"
  /\ relayWanted(r)
  /\ \E ok \in BOOLEAN : Log(r, Call("PostOrder", 0, ok, ok))
  /\ posted' = [posted EXCEPT ![r] = externalItems(orderResult[r].items, 1)]
  /\ pc' = [pc EXCEPT ![r] = "return"]
  /\ UNCHANGED <<received, arith, req, userCart, cartItems, i, out, isExternal, product, shippingUSD,
                 prep, total, shippingTrackingID, orderResult, resp, err>>

\* isExternal is false: no relay
skipRelay(r) ==
  /\ pc[r] = "relay"
  /\ ~relayWanted(r)
  /\ pc' = [pc EXCEPT ![r] = "return"]
  /\ UNCHANGED <<received, arith, req, userCart, cartItems, i, out, isExternal, product, shippingUSD,
                 prep, total, shippingTrackingID, orderResult, resp, err, posted, calls>>

\* return resp, nil
returnOrder(r) ==
  /\ pc[r] = "return"
  /\ pc' = [pc EXCEPT ![r] = "returned"]
  /\ resp' = [resp EXCEPT ![r] = <<orderResult[r]>>]
  /\ err' = [err EXCEPT ![r] = OK]
  /\ UNCHANGED <<received, arith, req, userCart, cartItems, i, out, isExternal, product, shippingUSD,
                 prep, total, shippingTrackingID, orderResult, posted, calls>>

PlaceOrder(r) ==
  \/ NewUUID(r)
  \/ getUserCart(r)
  \/ prepOrderItems(r)
  \/ prepOrderItemsLine(r)
  \/ prepOrderItemsExists(r)
  \/ prepOrderItemsGetProduct(r)
  \/ prepOrderItemsConvert(r)
  \/ quoteShipping(r)
  \/ convertShipping(r)
  \/ prepareFailed(r)
  \/ computeTotal(r)
  \/ chargeCard(r)
  \/ shipOrder(r)
  \/ emptyUserCart(r)
  \/ sendOrderConfirmation(r)
  \/ postExternalOrder(r)
  \/ skipRelay(r)
  \/ returnOrder(r)

Next == \E r \in Invocations : PlaceOrder(r)

Spec == Init /\ [][Next]_vars

\* ------------------------------------------------- money arithmetic alone
\* the Money values that satisfy the invariant: |nanos| < 10^9, and units and
\* nanos of the same sign or one of them zero
ValidMoney(m) ==
  /\ m.nanos > -NanosMod /\ m.nanos < NanosMod
  /\ ~(m.units > 0 /\ m.nanos < 0)
  /\ ~(m.units < 0 /\ m.nanos > 0)

NanosValues == {0, 250000000, 500000000, 750000000, NanosMod - 1}
Moneys ==
  {m \in {Money(c, u, s * nn) : c \in CurrencyCodes, u \in (-MaxUnits)..MaxUnits,
                                s \in {-1, 1}, nn \in NanosValues} : ValidMoney(m)}

\* any two valid Money values and any factor
InitMoney ==
  /\ pc = [r \in Invocations |-> "idle"]
  /\ req = [r \in Invocations |-> [user_id |-> r, user_currency |-> usdCurrency]]
  /\ userCart = [u \in UserIds |-> <<>>]
  /\ InitLocals
  /\ \E x \in Moneys, y \in Moneys, k \in 0..MaxFactor :
       arith = [NoArith EXCEPT !.a = x, !.b = y, !.n = k]

\* money.Sum(a, b)
applySum ==
  /\ arith.op = "none"
  /\ arith' = [arith EXCEPT !.op = "Sum",
                            !.ok = Sum(arith.a, arith.b).ok,
                            !.money = Sum(arith.a, arith.b).money]
  /\ UNCHANGED <<pc, req, userCart, cartItems, i, out, isExternal, product,
                 shippingUSD, prep, total, shippingTrackingID, orderResult, resp,
                 err, posted, calls, received>>

\* money.MultiplySlow(a, n)
applyMultiplySlow ==
  /\ arith.op = "none"
  /\ arith' = [arith EXCEPT !.op = "MultiplySlow",
                            !.money = MultiplySlow(arith.a, arith.n)]
  /\ UNCHANGED <<pc, req, userCart, cartItems, i, out, isExternal, product,
                 shippingUSD, prep, total, shippingTrackingID, orderResult, resp,
                 err, posted, calls, received>>

NextMoney == applySum \/ applyMultiplySlow

SpecMoney == InitMoney /\ [][NextMoney]_vars

\* ------------------------------------------------------------- progress
\* the goroutine of an invocation keeps running, and every downstream call
\* it waits for returns: a step that stays possible is taken
SpecLive == Init /\ [][Next]_vars /\ \A r \in Invocations : WF_vars(PlaceOrder(r))

\* --------------------------------------------------- concurrent requests
\* the gRPC server runs each PlaceOrder in a goroutine of its own; the
\* checkoutService they share holds addresses and connections only
ConcurrentCarts ==
  {<<CartItem(InternalId, 1)>>, <<CartItem(ExternalId, 1), CartItem(InternalId, 1)>>}

\* two inbound requests in flight, of one user or of two, in two currencies
InitConcurrent ==
  /\ pc = [r \in Invocations |-> "Start"]
  /\ \E u \in UserIds :
       req = [r \in Invocations |->
                IF r = 1 THEN [user_id |-> 1, user_currency |-> usdCurrency]
                ELSE [user_id |-> u, user_currency |-> eurCurrency]]
  /\ userCart \in [UserIds -> ConcurrentCarts]
  /\ InitLocals
  /\ arith = NoArith

SpecConcurrent == InitConcurrent /\ [][Next]_vars

TypeOK ==
  /\ \A r \in Invocations : err[r] \in {OK, Internal, Unavailable}
  /\ \A r \in Invocations : Len(resp[r]) <= 1

\* ------------------------------------------------------- reading the log
Idx(r) == DOMAIN calls[r]
Made(r, op) == \E k \in Idx(r) : calls[r][k].op = op
Ok(r, op, line) == \E k \in Idx(r) : calls[r][k] = Call(op, line, TRUE, TRUE)
Failed(r, op) == \E k \in Idx(r) : calls[r][k].op = op /\ ~calls[r][k].ok
Times(r, op, line) ==
  Cardinality({k \in Idx(r) : calls[r][k].op = op /\ calls[r][k].line = line})

PrepOps == {"GetCart", "getExternalProduct", "GetProduct", "Convert", "GetQuote",
            "ConvertShipping"}
LaterOps == {"Charge", "ShipOrder", "EmptyCart", "SendOrderConfirmation", "PostOrder"}

\* the calls of a successful preparation of a cart of n lines, existence
\* checks left out: the fetch, per line the lookup and the conversion, the
\* quote and its conversion
RECURSIVE PricingCalls(_, _)
PricingCalls(j, n) ==
  IF j > n THEN <<>>
  ELSE <<Call("GetProduct", j, TRUE, TRUE), Call("Convert", j, TRUE, TRUE)>>
       \o PricingCalls(j + 1, n)
PreparationCalls(n) ==
  <<Call("GetCart", 0, TRUE, TRUE)>> \o PricingCalls(1, n)
  \o <<Call("GetQuote", 0, TRUE, TRUE), Call("ConvertShipping", 0, TRUE, TRUE)>>

NotExistenceCheck(c) == c.op # "getExternalProduct"

\* a line of the fetched cart has a store id other than the internal one
HasExternalLine(r) ==
  \E j \in DOMAIN cartItems[r] :
     LET s == Split(cartItems[r][j].product_id)
     IN  Len(s) >= 2 /\ s[1] # InternalStore

\* the response is the order of this invocation, fully populated
Populated(r) ==
  resp[r] = <<[order_id |-> r,
               shipping_tracking_id |-> shippingTrackingID[r],
               shipping_cost |-> prep[r].shippingCostLocalized,
               items |-> out[r]]>>

\* ------------------------------------------------------------------ claims

\* C1: a charge is attempted only after the cart fetch, the pricing of every
\* cart line in cart order, the shipping quote and the quote's conversion have
\* all succeeded, in that order; once one of those steps has failed, no charge,
\* shipment, cart clearing, email or relay is attempted.
C1_ChargeOnlyAfterPreparation ==
  \A r \in Invocations :
    /\ \A k \in Idx(r) :
         calls[r][k].op = "Charge" =>
           /\ \A m \in 1..(k - 1) : calls[r][m].ok
           /\ SelectSeq(SubSeq(calls[r], 1, k - 1), NotExistenceCheck)
                = PreparationCalls(Len(cartItems[r]))
    /\ \A k \in Idx(r) :
         (calls[r][k].op \in PrepOps /\ ~calls[r][k].ok) =>
           \A m \in Idx(r) : m > k => calls[r][m].op \notin LaterOps

C1_Witness ==
  \E r \in Invocations :
    /\ Made(r, "Charge")
    /\ Len(cartItems[r]) = 2
    /\ Made(r, "getExternalProduct")

\* C2: when the shipment dispatch fails after a successful charge, PlaceOrder
\* has returned an error and no order, and no call at all follows the failed
\* dispatch: no refund or compensation, no cart clearing, email or relay.
C2_NoRollbackAfterCharge ==
  \A r \in Invocations :
    \A k \in Idx(r) :
      (/\ calls[r][k] = Call("ShipOrder", 0, FALSE, FALSE)
       /\ Ok(r, "Charge", 0)) =>
        /\ k = Len(calls[r])
        /\ calls[r][k - 1] = Call("Charge", 0, TRUE, TRUE)
        /\ pc[r] = "returned"
        /\ err[r] # OK
        /\ resp[r] = <<>>

C2_Witness ==
  \E r \in Invocations :
    /\ Ok(r, "Charge", 0)
    /\ Failed(r, "ShipOrder")
    /\ pc[r] = "returned"

\* every step the response depends on has succeeded
AllSucceeded(r) ==
  /\ Ok(r, "GetCart", 0)
  /\ \A j \in 1..Len(cartItems[r]) : Ok(r, "GetProduct", j) /\ Ok(r, "Convert", j)
  /\ ~Failed(r, "getExternalProduct")
  /\ Ok(r, "GetQuote", 0)
  /\ Ok(r, "ConvertShipping", 0)
  /\ Ok(r, "Charge", 0)
  /\ Ok(r, "ShipOrder", 0)

\* C3: what PlaceOrder returns is either an OrderResult with no error or an
\* error with no response, and it is an OrderResult exactly when cart fetch,
\* pricing of every line, shipping quote, quote conversion, charge and shipment
\* dispatch all succeeded, whatever cart clearing, email and relay did.
C3_ResultXorError ==
  \A r \in Invocations :
    pc[r] = "returned" =>
      /\ \/ (Populated(r) /\ err[r] = OK)
         \/ (resp[r] = <<>> /\ err[r] # OK)
      /\ (resp[r] # <<>>) <=> AllSucceeded(r)

C3_Witness ==
  \E r \in Invocations :
    /\ pc[r] = "returned"
    /\ resp[r] # <<>>
    /\ Failed(r, "EmptyCart")
    /\ Failed(r, "SendOrderConfirmation")
    /\ Failed(r, "PostOrder")

\* C4: when the shipping quote or the conversion of the quote fails,
\* PlaceOrder returns status Unavailable.
C4_ShippingFailureUnavailable ==
  \A r \in Invocations :
    (pc[r] = "returned" /\ (Failed(r, "GetQuote") \/ Failed(r, "ConvertShipping"))) =>
      err[r] = Unavailable

\* the first call that failed, among those whose failure ends PlaceOrder
FatalOps == {"GetCart", "GetProduct", "Convert", "GetQuote", "ConvertShipping",
             "Charge", "ShipOrder"}
FirstFailure(r, k) ==
  /\ calls[r][k].op \in FatalOps
  /\ ~calls[r][k].ok
  /\ \A m \in 1..(k - 1) : calls[r][m].op \in FatalOps => calls[r][m].ok

\* C5: a failed cart fetch, catalog lookup or price conversion (on any line)
\* and a failed charge end PlaceOrder with Internal, a failed shipment dispatch
\* with Unavailable; the status is that of the first step that failed.
C5_StatusOfFirstFailure ==
  \A r \in Invocations :
    \A k \in Idx(r) :
      (FirstFailure(r, k) /\ pc[r] = "returned") =>
        /\ resp[r] = <<>>
        /\ calls[r][k].op \in {"GetCart", "GetProduct", "Convert", "Charge"}
             => err[r] = Internal
        /\ calls[r][k].op = "ShipOrder" => err[r] = Unavailable

C5_Witness ==
  \E r \in Invocations :
    /\ pc[r] = "returned"
    /\ Failed(r, "Charge")
    /\ err[r] = Internal
    /\ Len(cartItems[r]) = 2

\* every line of the fetched cart is well formed with the internal store id
AllInternal(r) ==
  \A j \in DOMAIN cartItems[r] : cartItems[r][j].product_id = InternalId

\* C6: for a cart all of whose lines carry the internal store id, no
\* existence check and no marketplace relay is ever made.
C6_InternalCartNeverExternal ==
  \A r \in Invocations :
    AllInternal(r) => ~Made(r, "getExternalProduct") /\ ~Made(r, "PostOrder")

C6_Witness ==
  \E r \in Invocations :
    /\ AllInternal(r)
    /\ Len(cartItems[r]) = 2
    /\ pc[r] = "returned"
    /\ err[r] = OK

\* C7: once an existence check has returned (false, error), no further call
\* is made (no catalog lookup, no charge, nothing later) and PlaceOrder
\* returns Internal with no response.
C7_MissingExternalProductAborts ==
  \A r \in Invocations :
    \A k \in Idx(r) :
      (calls[r][k].op = "getExternalProduct" /\ ~calls[r][k].ok /\ ~calls[r][k].b) =>
        /\ k = Len(calls[r])
        /\ pc[r] \in {"prepareFailed", "returned"}
        /\ pc[r] = "returned" => err[r] = Internal /\ resp[r] = <<>>

C7_Witness ==
  \E r \in Invocations :
    /\ pc[r] = "returned"
    /\ Failed(r, "getExternalProduct")
    /\ Ok(r, "Convert", 1)

\* the relay has been attempted exactly if the cart has an external line
RelayAsDecided(r) == Made(r, "PostOrder") <=> HasExternalLine(r)

\* C8: when the confirmation email fails (after charge and dispatch
\* succeeded), PlaceOrder goes on to the relay decision and returns the
\* populated OrderResult with no error; the relay is attempted exactly if the
\* cart has an external line, as without the failure.
C8_EmailFailureIgnored ==
  \A r \in Invocations :
    Failed(r, "SendOrderConfirmation") =>
      /\ Ok(r, "Charge", 0) /\ Ok(r, "ShipOrder", 0)
      /\ pc[r] \in {"relay", "return", "returned"}
      /\ pc[r] \in {"return", "returned"} => RelayAsDecided(r)
      /\ pc[r] = "returned" => Populated(r) /\ err[r] = OK

C8_Witness ==
  \E r \in Invocations :
    /\ Failed(r, "SendOrderConfirmation")
    /\ pc[r] = "returned"
    /\ Made(r, "PostOrder")

\* C9: when cart clearing fails (after charge and dispatch succeeded), the
\* stored cart is still the cart that was fetched, the only calls that follow
\* are the confirmation email and then the relay if the cart has an external
\* line, and PlaceOrder returns the populated OrderResult with no error.
C9_CartClearFailureIgnored ==
  \A r \in Invocations :
    \A k \in Idx(r) :
      calls[r][k] = Call("EmptyCart", 0, FALSE, FALSE) =>
        /\ Ok(r, "Charge", 0) /\ Ok(r, "ShipOrder", 0)
        /\ userCart[req[r].user_id] = cartItems[r]
        /\ pc[r] \in {"sendOrderConfirmation", "relay", "return", "returned"}
        /\ \A m \in Idx(r) : m > k =>
             \/ m = k + 1 /\ calls[r][m].op = "SendOrderConfirmation"
             \/ m = k + 2 /\ calls[r][m].op = "PostOrder"
        /\ pc[r] \in {"relay", "return", "returned"} => Made(r, "SendOrderConfirmation")
        /\ pc[r] \in {"return", "returned"} => RelayAsDecided(r)
        /\ pc[r] = "returned" => Populated(r) /\ err[r] = OK

C9_Witness ==
  \E r \in Invocations :
    /\ Failed(r, "EmptyCart")
    /\ pc[r] = "returned"
    /\ Len(userCart[req[r].user_id]) = 2
    /\ Made(r, "PostOrder")

OnceOps == {"GetCart", "GetQuote", "Charge", "ShipOrder", "EmptyCart",
            "SendOrderConfirmation", "PostOrder"}
PerLineOps == {"getExternalProduct", "GetProduct"}

\* C10: no retries: the cart fetch, shipping quote, charge, shipment
\* dispatch, cart clearing, confirmation email and relay are each attempted at
\* most once, the existence check and the catalog lookup at most once per
\* cart line.
C10_NoRetries ==
  \A r \in Invocations :
    /\ \A op \in OnceOps :
         Cardinality({k \in Idx(r) : calls[r][k].op = op}) <= 1
    /\ \A op \in PerLineOps :
         \A k \in Idx(r) : calls[r][k].op = op =>
           /\ calls[r][k].line \in 1..Len(cartItems[r])
           /\ Times(r, op, calls[r][k].line) = 1

C10_Witness ==
  \E r \in Invocations :
    /\ pc[r] = "returned"
    /\ Times(r, "getExternalProduct", 1) = 1
    /\ Times(r, "getExternalProduct", 2) = 1
    /\ \A op \in OnceOps : Made(r, op)

\* C11: the relay is attempted only on the success path (charge and dispatch
\* succeeded) of a cart with a line of a non-internal store, and always
\* there; it comes right after the confirmation email, is the last call, and
\* is made before the response is returned; whatever its outcome, the
\* populated OrderResult is returned with no error.
C11_RelayOnSuccessOfExternalCart ==
  \A r \in Invocations :
    /\ \A k \in Idx(r) :
         calls[r][k].op = "PostOrder" =>
           /\ Ok(r, "Charge", 0) /\ Ok(r, "ShipOrder", 0)
           /\ HasExternalLine(r)
           /\ k = Len(calls[r])
           /\ calls[r][k - 1].op = "SendOrderConfirmation"
           /\ pc[r] \in {"return", "returned"}
           /\ pc[r] = "return" => resp[r] = <<>>
           /\ pc[r] = "returned" => Populated(r) /\ err[r] = OK
    /\ (pc[r] = "returned" /\ Ok(r, "Charge", 0) /\ Ok(r, "ShipOrder", 0)
          /\ HasExternalLine(r)) => Made(r, "PostOrder")

C11_Witness ==
  \E r \in Invocations :
    /\ pc[r] = "returned"
    /\ Failed(r, "PostOrder")
    /\ Populated(r)
    /\ ~AllInternal(r)

\* an order item of a store other than the internal one
OfExternalStore(it) == Split(it.item.product_id)[1] # InternalStore

\* C12: the items of the relayed payload are exactly the order's items of a
\* non-internal store, in their order in the OrderResult, each with its
\* product id and per-unit cost unchanged; no internal item is included.
C12_RelayedItemsAreTheExternalOnes ==
  \A r \in Invocations :
    Made(r, "PostOrder") =>
      LET ext == SelectSeq(orderResult[r].items, OfExternalStore)
      IN  /\ Len(posted[r]) = Len(ext)
          /\ \A k \in DOMAIN posted[r] :
               /\ posted[r][k].ID = ext[k].item.product_id
               /\ posted[r][k].Cost.CurrencyCode = ext[k].cost.currency_code
               /\ posted[r][k].Cost.Units = ext[k].cost.units
               /\ posted[r][k].Cost.Nanos = ext[k].cost.nanos
               /\ Split(posted[r][k].ID)[1] # InternalStore

C12_Witness ==
  \E r \in Invocations :
    /\ Made(r, "PostOrder")
    /\ Len(orderResult[r].items) = 2
    /\ Len(posted[r]) = 1
    /\ posted[r][1].ID = orderResult[r].items[2].item.product_id

\* ------------------------------------------------------ exact money values
\* value(m) = units * 10^9 + nanos, held as <<units, thousands, ones>> with
\* 0 <= thousands < 10^6 and 0 <= ones < 10^3, so that no intermediate number
\* leaves the 32-bit range; equal triples are equal values
Limbs(u, h, l) ==
  LET h0 == h + (l \div 1000)
  IN  <<u + (h0 \div 1000000), h0 % 1000000, l % 1000>>
Value(m) == Limbs(m.units, m.nanos \div 1000, m.nanos % 1000)
AddValues(x, y) == Limbs(x[1] + y[1], x[2] + y[2], x[3] + y[3])
TimesValue(m, q) == Limbs(q * m.units, q * (m.nanos \div 1000), q * (m.nanos % 1000))

RECURSIVE ItemsValue(_, _)
ItemsValue(items, k) ==
  IF k > Len(items) THEN <<0, 0, 0>>
  ELSE AddValues(TimesValue(items[k].cost, items[k].item.quantity),
                 ItemsValue(items, k + 1))

\* C13: the amount passed to the charge is in the buyer's currency and its
\* value is the localized shipping cost plus, for each order item, quantity
\* times per-unit cost, exactly; one internal item at 10 USD with quantity 2
\* and a 5 USD shipping cost charge {USD, 25, 0}.
C13_ChargedAmountIsExactTotal ==
  \A r \in Invocations :
    Made(r, "Charge") =>
      /\ total[r].currency_code = req[r].user_currency
      /\ Value(total[r]) = AddValues(Value(prep[r].shippingCostLocalized),
                                     ItemsValue(prep[r].orderItems, 1))
      /\ (/\ prep[r].orderItems = <<[item |-> CartItem(InternalId, 2),
                                     cost |-> Money(usdCurrency, 10, 0)]>>
          /\ prep[r].shippingCostLocalized = Money(usdCurrency, 5, 0))
           => total[r] = Money(usdCurrency, 25, 0)

C13_Witness ==
  \E r \in Invocations :
    /\ Made(r, "Charge")
    /\ prep[r].orderItems = <<[item |-> CartItem(InternalId, 2),
                               cost |-> Money(usdCurrency, 10, 0)]>>
    /\ prep[r].shippingCostLocalized = Money(usdCurrency, 5, 0)
    /\ total[r] = Money(usdCurrency, 25, 0)

\* C14: for Money a, b of equal currency code that satisfy the invariant,
\* sum(a, b) succeeds, keeps the currency code, has the value
\* value(a) + value(b) and satisfies the invariant;
\* sum({USD,1,750000000}, {USD,2,750000000}) = {USD,4,500000000}.
C14_SumIsExactAndValid ==
  (arith.op = "Sum" /\ arith.a.currency_code = arith.b.currency_code) =>
    /\ arith.ok
    /\ arith.money.currency_code = arith.a.currency_code
    /\ Value(arith.money) = AddValues(Value(arith.a), Value(arith.b))
    /\ ValidMoney(arith.money)
    /\ (/\ arith.a = Money(usdCurrency, 1, 750000000)
        /\ arith.b = Money(usdCurrency, 2, 750000000))
         => arith.money = Money(usdCurrency, 4, 500000000)

C14_Witness ==
  /\ arith.op = "Sum"
  /\ arith.a = Money(usdCurrency, 1, 750000000)
  /\ arith.b = Money(usdCurrency, 2, 750000000)
  /\ arith.money = Money(usdCurrency, 4, 500000000)

\* C15: for a Money a that satisfies the invariant and n >= 0, multiply(a, n)
\* has the value n * value(a), keeps a's currency code and satisfies the
\* invariant; multiply(a, 0) is the zero Money of a's currency;
\* multiply({USD,2,500000000}, 3) = {USD,7,500000000}.
C15_MultiplyIsExactAndValid ==
  arith.op = "MultiplySlow" =>
    /\ arith.money.currency_code = arith.a.currency_code
    /\ Value(arith.money) = TimesValue(arith.a, arith.n)
    /\ ValidMoney(arith.money)
    /\ arith.n = 0 => arith.money = ZeroMoney(arith.a.currency_code)
    /\ (arith.a = Money(usdCurrency, 2, 500000000) /\ arith.n = 3)
         => arith.money = Money(usdCurrency, 7, 500000000)

C15_Witness ==
  /\ arith.op = "MultiplySlow"
  /\ arith.a = Money(usdCurrency, 2, 500000000)
  /\ arith.n = 3
  /\ arith.money = Money(usdCurrency, 7, 500000000)

\* the computation of the total has met a currency mismatch: a Sum failed
MismatchMet(r) ==
  /\ Ok(r, "ConvertShipping", 0)
  /\ pc[r] # "prepared"
  /\ ~Total(req[r].user_currency, prep[r].shippingCostLocalized,
            prep[r].orderItems).ok

\* C16: a currency mismatch met while computing the total (the localized
\* shipping cost or an item cost is not in the request's user_currency) ends
\* PlaceOrder with an error of status Internal or Unavailable returned to
\* the caller, and no charge is attempted.
C16_MismatchSurfacedAsError ==
  \A r \in Invocations :
    MismatchMet(r) =>
      /\ pc[r] = "returned"
      /\ err[r] \in {Internal, Unavailable}
      /\ resp[r] = <<>>
      /\ ~Made(r, "Charge")

\* a line without ":" has been reached by the pricing loop
MalformedMet(r) ==
  /\ pc[r] \notin {"prepOrderItems", "line"}
  /\ i[r] \in DOMAIN cartItems[r]
  /\ Len(Split(cartItems[r][i[r]].product_id)) < 2

\* C17: a cart line whose product id has no ":" ends PlaceOrder with an
\* error of status Internal or Unavailable returned to the caller, and no
\* charge is attempted.
C17_MalformedIdSurfacedAsError ==
  \A r \in Invocations :
    MalformedMet(r) =>
      /\ pc[r] = "returned"
      /\ err[r] \in {Internal, Unavailable}
      /\ resp[r] = <<>>
      /\ ~Made(r, "Charge")

\* C18: an existence check ends the pricing only when it returned
\* (false, error): it is then the last call. After every other outcome the
\* catalog lookup of the same line is the next call, and the test of the code
\* lets (true, error) proceed as well; so a product reported as not existing,
\* without an error, is still priced, charged and shipped.
C18_OnlyFalseWithErrorAborts ==
  /\ \A bb, ee \in BOOLEAN : ExistenceAborts(bb, ee) <=> (bb = FALSE /\ ee = TRUE)
  /\ \A r \in Invocations :
       \A k \in Idx(r) :
         calls[r][k].op = "getExternalProduct" =>
           IF ~calls[r][k].ok /\ ~calls[r][k].b
           THEN k = Len(calls[r]) /\ pc[r] \in {"prepareFailed", "returned"}
           ELSE /\ k = Len(calls[r]) => pc[r] = "GetProduct"
                /\ k < Len(calls[r]) =>
                     /\ calls[r][k + 1].op = "GetProduct"
                     /\ calls[r][k + 1].line = calls[r][k].line

C18_Witness ==
  \E r \in Invocations :
    /\ \E k \in Idx(r) : calls[r][k] = Call("getExternalProduct", 1, TRUE, FALSE)
    /\ Ok(r, "GetProduct", 1)
    /\ Ok(r, "Charge", 0)
    /\ Ok(r, "ShipOrder", 0)

PricingOps == {"getExternalProduct", "GetProduct", "Convert"}
IsPricingCall(c) == c.op \in PricingOps

\* the pricing calls of a whole cart, as <<op, line>>: line by line, the
\* existence check if the line's store is not the internal one, then the
\* catalog lookup, then the conversion
RECURSIVE ExpectedPricing(_, _)
ExpectedPricing(cart, j) ==
  IF j > Len(cart) THEN <<>>
  ELSE (IF Split(cart[j].product_id)[1] # InternalStore
        THEN <<<<"getExternalProduct", j>>>> ELSE <<>>)
       \o <<<<"GetProduct", j>>, <<"Convert", j>>>>
       \o ExpectedPricing(cart, j + 1)

\* a pricing call that ends the pricing
PricingFailure(c) ==
  /\ c.op \in PricingOps
  /\ ~c.ok
  /\ c.op = "getExternalProduct" => ~c.b

\* C19: the pricing calls made are an initial part of: per cart line in cart
\* order, whatever its origin, the catalog lookup and then the conversion
\* (after the existence check of an external line); each priced line's
\* OrderItem is at the line's position and carries the line; at the first
\* failed sub-step pricing stops: no call follows and no OrderItems remain.
C19_PricingInCartOrderUntilFailure ==
  \A r \in Invocations :
    LET made == SelectSeq(calls[r], IsPricingCall)
        expected == ExpectedPricing(cartItems[r], 1)
    IN  /\ Len(made) <= Len(expected)
        /\ \A k \in DOMAIN made :
             made[k].op = expected[k][1] /\ made[k].line = expected[k][2]
        /\ \A j \in DOMAIN out[r] :
             IF Ok(r, "Convert", j)
             THEN out[r][j].item = cartItems[r][j]
             ELSE out[r][j] = NilItem
        /\ Made(r, "GetQuote") =>
             /\ Len(made) = Len(expected)
             /\ Len(out[r]) = Len(cartItems[r])
             /\ \A j \in DOMAIN cartItems[r] : Ok(r, "Convert", j)
        /\ \A k \in Idx(r) :
             PricingFailure(calls[r][k]) =>
               /\ k = Len(calls[r])
               /\ out[r] = <<>>
               /\ prep[r].orderItems = <<>>

C19_Witness ==
  \E r \in Invocations :
    /\ Len(cartItems[r]) = 2
    /\ Made(r, "getExternalProduct")
    /\ Ok(r, "Convert", 1)
    /\ Failed(r, "GetProduct")
    /\ out[r] = <<>>
    /\ pc[r] = "returned"

\* the calls to the downstream gRPC services
GrpcOps == {"GetCart", "GetProduct", "Convert", "GetQuote", "ConvertShipping",
            "Charge", "ShipOrder", "EmptyCart", "SendOrderConfirmation"}

\* C20: every downstream call of PlaceOrder (cart fetch, catalog lookup,
\* currency conversion, shipping quote, charge, shipment dispatch, cart
\* clearing, email) is made with the context of the inbound request.
C20_CallsCarryRequestContext ==
  \A r \in Invocations :
    \A k \in Idx(r) :
      calls[r][k].op \in GrpcOps => calls[r][k].ctx = "ctx"

\* what an invocation makes of its own request and of what its own calls
\* returned: the order items, the total and the OrderResult
OwnItems(r) ==
  [j \in 1..Len(received[r].prices) |->
     [item |-> received[r].cart[j], cost |-> received[r].prices[j]]]
OwnTotal(r) == Total(req[r].user_currency, received[r].shipping, OwnItems(r)).money
OwnResult(r) ==
  [order_id |-> r,
   shipping_tracking_id |-> received[r].tracking,
   shipping_cost |-> received[r].shipping,
   items |-> OwnItems(r)]

\* C21: under any interleaving of the steps of two invocations, each
\* invocation's fetched cart, order items, total (the amount charged) and
\* returned OrderResult are what its own request and the responses to its own
\* downstream calls determine, as when it runs alone; nothing of the other
\* invocation enters them.
C21_InvocationsAreIsolated ==
  \A r \in Invocations :
    /\ cartItems[r] = received[r].cart
    /\ Made(r, "GetQuote") => out[r] = OwnItems(r)
    /\ Ok(r, "ConvertShipping", 0) =>
         /\ prep[r].orderItems = OwnItems(r)
         /\ prep[r].shippingCostLocalized = received[r].shipping
    /\ Made(r, "Charge") => total[r] = OwnTotal(r)
    /\ Made(r, "SendOrderConfirmation") => orderResult[r] = OwnResult(r)
    /\ pc[r] = "returned" /\ err[r] = OK => resp[r] = <<OwnResult(r)>>

C21_Witness ==
  /\ req[1].user_id = req[2].user_id
  /\ \A r \in Invocations : pc[r] = "returned" /\ err[r] = OK /\ Len(resp[r][1].items) = 2
  /\ total[1] # total[2]
  /\ resp[1][1].items # resp[2][1].items

\* C22: with every downstream call returning and a finite cart, every
\* PlaceOrder execution that starts eventually returns to its caller, with the
\* OrderResult (Done) or with an error status (one of the Aborted states).
C22_EveryExecutionReturns ==
  \A r \in Invocations : (pc[r] = "Start") ~> (pc[r] = "returned")

\* the calls of an order of no lines, in the order PlaceOrder makes them
EmptyCartOps ==
  <<"GetCart", "GetQuote", "ConvertShipping", "Charge", "ShipOrder", "EmptyCart",
    "SendOrderConfirmation">>

\* C23: when the cart fetch succeeds with zero lines, PlaceOrder makes no
\* existence check, catalog lookup, price conversion or relay; it goes on to the
\* shipping quote, charges exactly the localized shipping cost and dispatches
\* the shipment; it returns an error only when one of its calls failed, and
\* otherwise the OrderResult with an empty item sequence.
C23_EmptyCartIsNotRejected ==
  \A r \in Invocations :
    Ok(r, "GetCart", 0) /\ cartItems[r] = <<>> =>
      /\ \A k \in Idx(r) : k <= Len(EmptyCartOps) /\ calls[r][k].op = EmptyCartOps[k]
      /\ ~isExternal[r] /\ posted[r] = <<>>
      /\ Made(r, "Charge") => total[r] = prep[r].shippingCostLocalized
      /\ pc[r] = "returned" /\ err[r] # OK =>
           \E op \in {"GetQuote", "ConvertShipping", "Charge", "ShipOrder"} : Failed(r, op)
      /\ pc[r] = "returned" /\ err[r] = OK =>
           /\ Len(calls[r]) = Len(EmptyCartOps)
           /\ Ok(r, "GetQuote", 0) /\ Ok(r, "Charge", 0) /\ Ok(r, "ShipOrder", 0)
           /\ resp[r] = <<[order_id |-> r,
                           shipping_tracking_id |-> shippingTrackingID[r],
                           shipping_cost |-> total[r],
                           items |-> <<>>]>>

C23_Witness ==
  \E r \in Invocations :
    /\ Ok(r, "GetCart", 0) /\ cartItems[r] = <<>>
    /\ pc[r] = "returned" /\ err[r] = OK
    /\ Ok(r, "Charge", 0) /\ Ok(r, "ShipOrder", 0)
    /\ total[r] = prep[r].shippingCostLocalized
    /\ resp[r][1].items = <<>>

====
